---- MODULE Spec2Model ----
(***************************************************************************)
(* Model of the social-network graph analysis program (final_project):     *)
(* network.rs (Graph), analysis.rs (BFS, degree distribution, Jaccard      *)
(* similarity) and the edge-insertion loop of data_loader.rs.              *)
(*                                                                         *)
(* A Graph is its adj_list: a function from the node keys to the sequence  *)
(* of neighbours.  A Vec<usize> indexed from 0 is a function on 0..len-1.  *)
(* An f64 obtained as the quotient of two small integers is the fraction   *)
(* in lowest terms (distinct fractions with denominators this small are    *)
(* distinct f64 values, and the order is the same).  A panic (index out of *)
(* bounds) is the result [panic |-> TRUE].  The iteration order of a       *)
(* HashMap is unspecified, so every function that iterates over the keys   *)
(* takes the order as an argument and the calling action chooses it.       *)
(***************************************************************************)
EXTENDS Integers, Sequences, FiniteSets, TLC

VARIABLES adj_list, inserted, op, ret

vars == <<adj_list, inserted, op, ret>>

\* ---- bounds ----
MaxNode == 3
MaxEdges == 3
MaxTopN == 2
MaxIsolated == 1
\* the edges of the graphs that may hold isolated nodes, and of the graphs
\* whose keys are ranked in every iteration order
MaxSparseEdges == 2

Nodes == 0..MaxNode

\* usize::MAX stands for "unreachable"; the arithmetic on distances never
\* reaches it (a finite distance is below the number of nodes), so the
\* largest 32-bit integer stands in for 2^64 - 1.
USIZE_MAX == 2147483647

\* ---- results ----
Ok(v) == [panic |-> FALSE, value |-> v]
Panic == [panic |-> TRUE, value |-> <<>>]

Min2(a, b) == IF a < b THEN a ELSE b
Max2(a, b) == IF a > b THEN a ELSE b

RECURSIVE Gcd(_, _)
Gcd(a, b) == IF b = 0 THEN a ELSE Gcd(b, a % b)

\* n as f64 / d as f64, d > 0
F64Div(n, d) == LET g == Gcd(n, d) IN [num |-> n \div g, den |-> d \div g]
F64Zero == [num |-> 0, den |-> 1]
F64Gt(x, y) == x.num * y.den > y.num * x.den
F64Ge(x, y) == x.num * y.den >= y.num * x.den

\* {:.3} of a score in [0, 1]: thousandths, rounded to nearest (no score here
\* lies exactly half way: that needs a denominator that is a multiple of 16)
Fmt3(x) == (2000 * x.num + x.den) \div (2 * x.den)

\* ---- network.rs ----
new == <<>>

\* self.adj_list.entry(k).or_default().push(x)
entry_push(g, k, x) ==
    IF k \in DOMAIN g
    THEN [g EXCEPT ![k] = Append(@, x)]
    ELSE [n \in (DOMAIN g) \cup {k} |-> IF n = k THEN <<x>> ELSE g[n]]

\* add_edge changed to keep a simple graph: an edge already present is ignored
add_edge_no_duplicates(g, u, v) ==
    IF u \in DOMAIN g /\ (\E i \in DOMAIN g[u] : g[u][i] = v)
    THEN g
    ELSE entry_push(entry_push(g, u, v), v, u)

\* add_edge changed to record the edge at its first endpoint only
add_edge_one_way(g, u, v) == entry_push(g, u, v)

add_edge(g, u, v) == entry_push(entry_push(g, u, v), v, u)

degree(g, node) == IF node \in DOMAIN g THEN Len(g[node]) ELSE 0

num_nodes(g) == Cardinality(DOMAIN g)

\* the orders in which a HashMap of these keys may be iterated: every
\* arrangement of the keys
RECURSIVE Arrangements(_)
Arrangements(K) ==
    IF K = {} THEN {<<>>}
    ELSE UNION {{<<k>> \o s : s \in Arrangements(K \ {k})} : k \in K}

KeyOrders(g) == Arrangements(DOMAIN g)

NumEdges(g) ==
    LET RECURSIVE Sum(_)
        Sum(S) == IF S = {} THEN 0
                  ELSE LET k == CHOOSE x \in S : TRUE
                       IN Len(g[k]) + Sum(S \ {k})
    IN Sum(DOMAIN g) \div 2

\* ---- analysis.rs: BFS ----
\* the loop body changed to copy the distance of the current node
RECURSIVE visit_neighbors_no_increment(_, _, _, _)
visit_neighbors_no_increment(st, current, neighbors, i) ==
    IF st.panic \/ i > Len(neighbors) THEN st
    ELSE LET neighbor == neighbors[i] IN
         IF neighbor \in st.visited
         THEN visit_neighbors_no_increment(st, current, neighbors, i + 1)
         ELSE IF neighbor \notin DOMAIN st.distance
              THEN [st EXCEPT !.visited = @ \cup {neighbor}, !.panic = TRUE]
              ELSE visit_neighbors_no_increment(
                     [st EXCEPT !.visited = @ \cup {neighbor},
                                !.distance[neighbor] = st.distance[current],
                                !.queue = Append(@, neighbor)],
                     current, neighbors, i + 1)

\* the body of `for &neighbor in neighbors`, from the i-th neighbour on
RECURSIVE visit_neighbors(_, _, _, _)
visit_neighbors(st, current, neighbors, i) ==
    IF st.panic \/ i > Len(neighbors) THEN st
    ELSE LET neighbor == neighbors[i] IN
         IF neighbor \in st.visited
         THEN visit_neighbors(st, current, neighbors, i + 1)
         ELSE IF neighbor \notin DOMAIN st.distance
              THEN [st EXCEPT !.visited = @ \cup {neighbor}, !.panic = TRUE]
              ELSE visit_neighbors(
                     [st EXCEPT !.visited = @ \cup {neighbor},
                                !.distance[neighbor] = st.distance[current] + 1,
                                !.queue = Append(@, neighbor)],
                     current, neighbors, i + 1)

\* `while let Some(current) = queue.pop_front()`
RECURSIVE bfs_loop(_, _)
bfs_loop(g, st) ==
    IF st.panic \/ st.queue = <<>> THEN st
    ELSE LET current == Head(st.queue)
             st1 == [st EXCEPT !.queue = Tail(@)]
         IN IF current \in DOMAIN g
            THEN bfs_loop(g, visit_neighbors(st1, current, g[current], 1))
            ELSE bfs_loop(g, st1)

bfs_shortest_paths(g, start) ==
    LET distance == [i \in 0..(num_nodes(g) - 1) |-> USIZE_MAX]
    IN IF start \notin DOMAIN distance THEN Panic
       ELSE LET st == bfs_loop(g, [visited |-> {start},
                                   distance |-> [distance EXCEPT ![start] = 0],
                                   queue |-> <<start>>,
                                   panic |-> FALSE])
            IN IF st.panic THEN Panic ELSE Ok(st.distance)

average_shortest_path_length(g, start) ==
    LET r == bfs_shortest_paths(g, start) IN
    IF r.panic THEN Panic
    ELSE LET shortest_path_lengths == r.value
             n == Cardinality(DOMAIN shortest_path_lengths)
             RECURSIVE acc(_, _, _)
             acc(i, total, count) ==
                 IF i >= n THEN <<total, count>>
                 ELSE LET dist == shortest_path_lengths[i] IN
                      IF dist # USIZE_MAX /\ dist # 0
                      THEN acc(i + 1, total + dist, count + 1)
                      ELSE acc(i + 1, total, count)
             tc == acc(0, 0, 0)
         IN IF tc[2] = 0 THEN Ok(F64Zero) ELSE Ok(F64Div(tc[1], tc[2]))

\* ---- analysis.rs: degree distribution ----
\* the counter changed to start at 1: or_insert(1)
entry_incr_from_one(degree_count, d) ==
    IF d \in DOMAIN degree_count
    THEN [degree_count EXCEPT ![d] = @ + 1]
    ELSE [x \in (DOMAIN degree_count) \cup {d} |->
             IF x = d THEN 1 + 1 ELSE degree_count[x]]

\* *degree_count.entry(degree).or_insert(0) += 1
entry_incr(degree_count, d) ==
    IF d \in DOMAIN degree_count
    THEN [degree_count EXCEPT ![d] = @ + 1]
    ELSE [x \in (DOMAIN degree_count) \cup {d} |->
             IF x = d THEN 0 + 1 ELSE degree_count[x]]

\* `order` is the order in which graph.adj_list.values() yields the lists
compute_degree_distribution(g, order) ==
    LET RECURSIVE loop(_, _)
        loop(i, degree_count) ==
            IF i > Len(order) THEN degree_count
            ELSE loop(i + 1, entry_incr(degree_count, Len(g[order[i]])))
    IN loop(1, <<>>)

\* degrees.sort_by_key(|&(degree, _)| *degree): the keys are distinct, so the
\* sorted vector is the keys in ascending order whatever order iter() yields
RECURSIVE sort_by_key(_)
sort_by_key(S) ==
    IF S = {} THEN <<>>
    ELSE LET m == CHOOSE x \in S : \A y \in S : x <= y
         IN <<m>> \o sort_by_key(S \ {m})

\* degree_count.values().copied().max().unwrap_or(1)
max_count(degree_count) ==
    IF DOMAIN degree_count = {} THEN 1
    ELSE CHOOSE c \in {degree_count[d] : d \in DOMAIN degree_count} :
             \A d \in DOMAIN degree_count : degree_count[d] <= c

\* the bar changed to divide before it multiplies
bar_len_divide_first(count, maxc) == Max2(50 * (count \div maxc), 1)

\* (50 * *count) / max_count, then bar_len.max(1)
bar_len(count, maxc) == Max2((50 * count) \div maxc, 1)

\* the printed lines: the degree and the number of '*' of its bar
print_degree_distribution(g, order) ==
    LET degree_count == compute_degree_distribution(g, order)
        degrees == sort_by_key(DOMAIN degree_count)
        maxc == max_count(degree_count)
    IN [i \in 1..Len(degrees) |->
           [degree |-> degrees[i],
            bar |-> bar_len(degree_count[degrees[i]], maxc)]]

\* ---- analysis.rs: Jaccard similarity ----
\* neighbors.iter().copied().collect::<HashSet<_>>()
collect_set(neighbors) == {neighbors[i] : i \in 1..Len(neighbors)}

\* the similarity changed to count list entries, duplicates not collapsed
jaccard_similarity_of_lists(g, a, b) ==
    IF a \notin DOMAIN g THEN F64Zero
    ELSE IF b \notin DOMAIN g THEN F64Zero
    ELSE LET intersection == Cardinality({i \in DOMAIN g[a] :
                                            \E j \in DOMAIN g[b] : g[a][i] = g[b][j]})
             union == Len(g[a]) + Len(g[b]) - intersection
         IN IF union = 0 THEN F64Zero ELSE F64Div(intersection, union)

jaccard_similarity(g, a, b) ==
    IF a \notin DOMAIN g THEN F64Zero
    ELSE IF b \notin DOMAIN g THEN F64Zero
    ELSE LET set_a == collect_set(g[a])
             set_b == collect_set(g[b])
             intersection == Cardinality(set_a \cap set_b)
             union == Cardinality(set_a \cup set_b)
         IN IF union = 0 THEN F64Zero ELSE F64Div(intersection, union)

\* the sort changed to ascending order: a.1.partial_cmp(&b.1)
RECURSIVE sort_ascending(_)
sort_ascending(s) ==
    IF s = <<>> THEN <<>>
    ELSE LET n == Len(s)
             rest == sort_ascending(SubSeq(s, 1, n - 1))
             x == s[n]
             k == Cardinality({i \in 1..Len(rest) : F64Ge(x.score, rest[i].score)})
         IN SubSeq(rest, 1, k) \o <<x>> \o SubSeq(rest, k + 1, Len(rest))

\* similarities.sort_by(|a, b| b.1.partial_cmp(&a.1).unwrap()): a stable sort,
\* descending by score; the scores are never NaN, so unwrap() cannot fail
RECURSIVE sort_descending(_)
sort_descending(s) ==
    IF s = <<>> THEN <<>>
    ELSE LET n == Len(s)
             rest == sort_descending(SubSeq(s, 1, n - 1))
             x == s[n]
             \* x goes after every element whose score is not below its own
             k == Cardinality({i \in 1..Len(rest) : F64Ge(rest[i].score, x.score)})
         IN SubSeq(rest, 1, k) \o <<x>> \o SubSeq(rest, k + 1, Len(rest))

\* the lines printed after the header, one per listed node: node, score and
\* the score as printed ({:.3})
find_top_jaccard_similarities(g, target, top_n, order) ==
    LET others == SelectSeq(order, LAMBDA node : node # target)
        similarities == [i \in 1..Len(others) |->
                            [node |-> others[i],
                             score |-> jaccard_similarity(g, target, others[i])]]
        sorted == sort_descending(similarities)
        shown == SubSeq(sorted, 1, Min2(top_n, Len(sorted)))
    IN [i \in 1..Len(shown) |->
           [node |-> shown[i].node, score |-> shown[i].score,
            text |-> Fmt3(shown[i].score)]]

\* the printed line: best_pair, best_score and the score as printed
find_most_similar_pair(g, nodes) ==
    LET RECURSIVE loop(_, _, _)
        loop(i, j, best) ==
            IF i > Len(nodes) THEN best
            ELSE IF j > Len(nodes) THEN loop(i + 1, i + 2, best)
            ELSE LET a == nodes[i]
                     b == nodes[j]
                     score == jaccard_similarity(g, a, b)
                 IN IF F64Gt(score, best.best_score)
                    THEN loop(i, j + 1, [best_pair |-> <<a, b>>, best_score |-> score])
                    ELSE loop(i, j + 1, best)
        best == loop(1, 2, [best_pair |-> <<0, 0>>, best_score |-> F64Zero])
    IN [best_pair |-> best.best_pair, best_score |-> best.best_score,
        text |-> Fmt3(best.best_score)]

\* ---- state machine ----
Init ==
    /\ adj_list = new
    /\ inserted = {}
    /\ op = [name |-> "new", args |-> <<>>]
    /\ ret = Ok(<<>>)

\* main.rs loads the graph completely and analyses it afterwards: the graph
\* is under construction until the first analysis is called.  The analyses do
\* not change the graph and do not depend on each other, so each is modelled
\* as a step from the loaded graph.
Loading == op.name \in {"new", "add_edge", "insert"}

\* one iteration of the loop of load_graph_from_file: graph.add_edge(a, b)
AddEdge(u, v) ==
    /\ Loading
    /\ NumEdges(adj_list) < MaxEdges
    /\ adj_list' = add_edge(adj_list, u, v)
    /\ inserted' = inserted \cup {{u, v}}
    /\ op' = [name |-> "add_edge", args |-> <<u, v>>]
    /\ ret' = Ok(<<>>)

CallBfs(start) ==
    /\ Loading
    /\ op' = [name |-> "bfs_shortest_paths", args |-> <<start>>]
    /\ ret' = bfs_shortest_paths(adj_list, start)
    /\ UNCHANGED <<adj_list, inserted>>

CallAverage(start) ==
    /\ Loading
    /\ op' = [name |-> "average_shortest_path_length", args |-> <<start>>]
    /\ ret' = average_shortest_path_length(adj_list, start)
    /\ UNCHANGED <<adj_list, inserted>>

CallDegreeDistribution ==
    /\ Loading
    /\ \E order \in KeyOrders(adj_list) :
          ret' = Ok(compute_degree_distribution(adj_list, order))
    /\ op' = [name |-> "compute_degree_distribution", args |-> <<>>]
    /\ UNCHANGED <<adj_list, inserted>>

CallPrintDegreeDistribution ==
    /\ Loading
    /\ \E order \in KeyOrders(adj_list) :
          ret' = Ok(print_degree_distribution(adj_list, order))
    /\ op' = [name |-> "print_degree_distribution", args |-> <<>>]
    /\ UNCHANGED <<adj_list, inserted>>

CallJaccard(a, b) ==
    /\ Loading
    /\ op' = [name |-> "jaccard_similarity", args |-> <<a, b>>]
    /\ ret' = Ok(jaccard_similarity(adj_list, a, b))
    /\ UNCHANGED <<adj_list, inserted>>

CallTopJaccard(target, top_n) ==
    /\ Loading
    /\ \E order \in KeyOrders(adj_list) :
          ret' = Ok(find_top_jaccard_similarities(adj_list, target, top_n, order))
    /\ op' = [name |-> "find_top_jaccard_similarities", args |-> <<target, top_n>>]
    /\ UNCHANGED <<adj_list, inserted>>

CallMostSimilarPair ==
    /\ Loading
    /\ \E nodes \in KeyOrders(adj_list) :
          ret' = Ok(find_most_similar_pair(adj_list, nodes))
    /\ op' = [name |-> "find_most_similar_pair", args |-> <<>>]
    /\ UNCHANGED <<adj_list, inserted>>

\* graph.adj_list.insert(n, vec![]) for a node that is not yet in the graph
\* (test_graph_with_isolated_nodes): an isolated node
RegisterIsolated(n) ==
    /\ Loading
    /\ Cardinality({k \in DOMAIN adj_list : adj_list[k] = <<>>}) < MaxIsolated
    /\ n \notin DOMAIN adj_list
    /\ adj_list' = [k \in (DOMAIN adj_list) \cup {n} |->
                       IF k = n THEN <<>> ELSE adj_list[k]]
    /\ op' = [name |-> "insert", args |-> <<n>>]
    /\ ret' = Ok(<<>>)
    /\ UNCHANGED inserted

\* add_edge on a graph that is kept small
AddEdgeSparse(u, v) ==
    /\ NumEdges(adj_list) < MaxSparseEdges
    /\ AddEdge(u, v)

\* graphs built by add_edge alone (load_graph_from_file): traversal
Next ==
    \/ \E u, v \in Nodes : AddEdge(u, v)
    \/ \E start \in Nodes : CallBfs(start)
    \/ \E start \in Nodes : CallAverage(start)

Spec == Init /\ [][Next]_vars

\* graphs built by add_edge alone: the histogram, in every iteration order of
\* the keys
NextHist ==
    \/ \E u, v \in Nodes : AddEdge(u, v)
    \/ CallPrintDegreeDistribution

SpecHist == Init /\ [][NextHist]_vars

\* graphs that may also hold isolated nodes: traversal, degree distribution
\* and similarity of two nodes
NextIso ==
    \/ \E u, v \in Nodes : AddEdgeSparse(u, v)
    \/ \E n \in Nodes : RegisterIsolated(n)
    \/ \E start \in Nodes : CallBfs(start)
    \/ \E start \in Nodes : CallAverage(start)
    \/ CallDegreeDistribution
    \/ \E a, b \in Nodes : CallJaccard(a, b)

SpecIso == Init /\ [][NextIso]_vars

\* graphs built by add_edge alone: the rankings by similarity, in every
\* iteration order of the keys
NextTop ==
    \/ \E u, v \in Nodes : AddEdgeSparse(u, v)
    \/ \E target \in Nodes, top_n \in 0..MaxTopN : CallTopJaccard(target, top_n)
    \/ CallMostSimilarPair

SpecTop == Init /\ [][NextTop]_vars

\* ---- vocabulary of the properties ----
Keys == DOMAIN adj_list

\* the neighbour set N(x); a node that is not in the graph has no neighbours
N(x) == IF x \in Keys THEN {adj_list[x][i] : i \in DOMAIN adj_list[x]} ELSE {}

Count(s, x) == Cardinality({i \in DOMAIN s : s[i] = x})

\* the nodes that a path of at most k edges joins to s
RECURSIVE Within(_, _)
Within(s, k) ==
    IF k = 0 THEN {s}
    ELSE LET W == Within(s, k - 1) IN W \cup UNION {N(x) : x \in W}

\* a path visits no node twice, so it has at most MaxNode edges
Reachable(s) == Within(s, MaxNode)

\* the least number of edges of a path from s to i, for i in Reachable(s)
HopDistance(s, i) == CHOOSE k \in 0..MaxNode :
                        /\ i \in Within(s, k)
                        /\ \A j \in 0..(k - 1) : i \notin Within(s, j)

\* ---- C1 ----
\* C1 as stated: every add_edge(u, v) raises degree(u) by exactly 1 and
\* degree(v) by exactly 1 (the degree of an absent node being 0).
C1_AsStated ==
    [][op'.name = "add_edge" =>
          LET u == op'.args[1]
              v == op'.args[2]
          IN /\ degree(adj_list', u) = degree(adj_list, u) + 1
             /\ degree(adj_list', v) = degree(adj_list, v) + 1]_vars

\* C1 (amended): add_edge(u, v) with u # v raises degree(u) and degree(v) by
\* exactly 1 each, duplicate edges included; add_edge(u, u) raises degree(u)
\* by exactly 2; no other degree changes.
C1_DegreeStep ==
    [][op'.name = "add_edge" =>
          LET u == op'.args[1]
              v == op'.args[2]
          IN /\ u # v => /\ degree(adj_list', u) = degree(adj_list, u) + 1
                         /\ degree(adj_list', v) = degree(adj_list, v) + 1
             /\ u = v => degree(adj_list', u) = degree(adj_list, u) + 2
             /\ \A w \in Nodes \ {u, v} :
                    degree(adj_list', w) = degree(adj_list, w)]_vars

\* a duplicate edge between two distinct nodes has just been added, and the
\* graph also holds a self-loop
C1_Witness ==
    /\ op.name = "add_edge"
    /\ op.args[1] # op.args[2]
    /\ Count(adj_list[op.args[1]], op.args[2]) >= 2
    /\ \E w \in Keys : Count(adj_list[w], w) = 2

\* ---- C2 ----
\* C2 as stated: on a graph built by add_edge, bfs_shortest_paths(graph, start)
\* with start a key and start < num_nodes() returns a distance vector (it does
\* not index the distance array out of bounds).
C2_BfsTotal ==
    (/\ op.name = "bfs_shortest_paths"
     /\ op.args[1] \in Keys
     /\ op.args[1] < num_nodes(adj_list))
    => ~ret.panic

\* ---- C3 ----
\* C3: when bfs_shortest_paths returns, the result has length num_nodes(),
\* index start holds 0, and index i holds the least number of edges of a path
\* from start to i, or the sentinel (above every distance) exactly when there
\* is no such path.
C3_BfsDistances ==
    (op.name = "bfs_shortest_paths" /\ ~ret.panic) =>
        LET start == op.args[1]
            distance == ret.value
        IN /\ DOMAIN distance = 0..(num_nodes(adj_list) - 1)
           /\ distance[start] = 0
           /\ \A i \in DOMAIN distance :
                 IF i \in Reachable(start)
                 THEN distance[i] = HopDistance(start, i) /\ distance[i] < USIZE_MAX
                 ELSE distance[i] = USIZE_MAX

\* a traversal returned a vector with a node at distance 2 and an unreachable
\* node
C3_Witness ==
    /\ op.name = "bfs_shortest_paths"
    /\ ~ret.panic
    /\ \E i, j \in DOMAIN ret.value :
          ret.value[i] = 2 /\ ret.value[j] = USIZE_MAX

\* ---- C4 ----
\* C4 as stated: average_shortest_path_length(graph, start) returns 0.0,
\* without failing, whenever no node other than start is reachable from start
\* (the empty graph included).
C4_AverageFallback ==
    (/\ op.name = "average_shortest_path_length"
     /\ Reachable(op.args[1]) \subseteq {op.args[1]})
    => ret = Ok(F64Zero)

\* ---- C5 ----
\* C5: in a graph built by add_edge the keys are exactly the endpoints of the
\* inserted edges, every neighbour is a key, for distinct keys u and v the
\* number of v in u's list equals the number of u in v's list, and no key is
\* ever removed.
C5_State ==
    /\ Keys = UNION inserted
    /\ \A u \in Keys : \A i \in DOMAIN adj_list[u] : adj_list[u][i] \in Keys
    /\ \A u, v \in Keys :
          u # v => Count(adj_list[u], v) = Count(adj_list[v], u)

C5_Undirected == [](C5_State) /\ [][DOMAIN adj_list \subseteq DOMAIN adj_list']_vars

\* three nodes, one of them joined to another by a duplicate edge
C5_Witness ==
    /\ Cardinality(Keys) >= 3
    /\ \E u, v \in Keys : u # v /\ Count(adj_list[u], v) >= 2

\* ---- C6 ----
\* C6: compute_degree_distribution maps each degree d to the number of keys
\* whose neighbour sequence has length d, holds no bucket of count 0, and its
\* counts sum to num_nodes() (empty graph and isolated nodes included).
SumCounts(f) ==
    LET RECURSIVE Sum(_)
        Sum(S) == IF S = {} THEN 0
                  ELSE LET d == CHOOSE x \in S : TRUE IN f[d] + Sum(S \ {d})
    IN Sum(DOMAIN f)

C6_DegreeDistribution ==
    op.name = "compute_degree_distribution" =>
        LET degree_count == ret.value
        IN /\ DOMAIN degree_count = {Len(adj_list[k]) : k \in Keys}
           /\ \A d \in DOMAIN degree_count :
                 /\ degree_count[d] = Cardinality({k \in Keys : Len(adj_list[k]) = d})
                 /\ degree_count[d] > 0
           /\ SumCounts(degree_count) = num_nodes(adj_list)

\* the distribution of a graph with an isolated node and two nodes of one
\* other degree
C6_Witness ==
    /\ op.name = "compute_degree_distribution"
    /\ 0 \in DOMAIN ret.value
    /\ \E d \in DOMAIN ret.value : d > 0 /\ ret.value[d] >= 2

\* ---- C7 ----
\* C7: jaccard_similarity(graph, a, b) is |N(a) /\ N(b)| / |N(a) \/ N(b)| over
\* the neighbour sets (duplicates collapsed), exactly 0.0 when a or b is absent
\* or the union is empty, and lies in [0, 1].
C7_Jaccard ==
    op.name = "jaccard_similarity" =>
        LET a == op.args[1]
            b == op.args[2]
            score == ret.value
        IN /\ score.den > 0 /\ 0 <= score.num /\ score.num <= score.den
           /\ IF a \notin Keys \/ b \notin Keys \/ N(a) \cup N(b) = {}
              THEN score = F64Zero
              ELSE score.num * Cardinality(N(a) \cup N(b))
                     = Cardinality(N(a) \cap N(b)) * score.den

\* a score strictly between 0 and 1 of two distinct nodes, one of which has a
\* repeated neighbour
C7_Witness ==
    /\ op.name = "jaccard_similarity"
    /\ op.args[1] # op.args[2]
    /\ 0 < ret.value.num /\ ret.value.num < ret.value.den
    /\ Len(adj_list[op.args[1]]) > Cardinality(N(op.args[1]))

\* ---- C8 ----
\* the Jaccard score of two nodes, from the neighbour sets
Score(a, b) ==
    IF a \notin Keys \/ b \notin Keys \/ N(a) \cup N(b) = {} THEN F64Zero
    ELSE F64Div(Cardinality(N(a) \cap N(b)), Cardinality(N(a) \cup N(b)))

\* C8: the lines of find_top_jaccard_similarities(graph, target, k) are sorted
\* non-increasing by score, never name the target, are min(k, number of keys
\* other than target) many, and no key left out scores strictly higher than a
\* listed one.
C8_TopK ==
    op.name = "find_top_jaccard_similarities" =>
        LET target == op.args[1]
            k == op.args[2]
            out == ret.value
            listed == {out[i].node : i \in DOMAIN out}
        IN /\ \A i, j \in DOMAIN out :
                 i < j => /\ F64Ge(out[i].score, out[j].score)
                          /\ out[i].node # out[j].node
           /\ \A i \in DOMAIN out :
                 /\ out[i].node # target
                 /\ out[i].node \in Keys
                 /\ out[i].score = Score(target, out[i].node)
           /\ Len(out) = Min2(k, Cardinality(Keys \ {target}))
           /\ \A n \in Keys \ ({target} \cup listed) :
                 \A i \in DOMAIN out : ~F64Gt(Score(target, n), out[i].score)

\* the two other keys were listed, the higher score first
C8_Witness ==
    /\ op.name = "find_top_jaccard_similarities"
    /\ op.args[2] = 2
    /\ Len(ret.value) = 2
    /\ F64Gt(ret.value[1].score, ret.value[2].score)

\* ---- C9 ----
\* C9 as stated: on a graph with at least two keys find_most_similar_pair
\* reports two distinct keys whose score is the highest of all pairs of
\* distinct keys, with that score; only on a graph with fewer than two keys
\* does it report the default pair (0, 0) with 0.0.
C9_MostSimilarPair ==
    op.name = "find_most_similar_pair" =>
        LET a == ret.value.best_pair[1]
            b == ret.value.best_pair[2]
            score == ret.value.best_score
        IN IF Cardinality(Keys) >= 2
           THEN /\ a # b /\ a \in Keys /\ b \in Keys
                /\ score = Score(a, b)
                /\ \A x, y \in Keys : x # y => F64Ge(score, Score(x, y))
           ELSE ret.value.best_pair = <<0, 0>> /\ score = F64Zero

\* ---- C10 ----
\* round(50 * c / m), halves away from zero
Round50(c, m) == (100 * c + m) \div (2 * m)

Ascending(lines) ==
    \A i, j \in DOMAIN lines : i < j => lines[i].degree < lines[j].degree

LargestCount == LET counts == {Cardinality({k \in Keys : Len(adj_list[k]) = d}) :
                                  d \in {Len(adj_list[k]) : k \in Keys}}
                IN CHOOSE c \in counts : \A x \in counts : x <= c

CountOf(d) == Cardinality({k \in Keys : Len(adj_list[k]) = d})

====
